---- MODULE Spec2Model ----
(***************************************************************************)
(* Model of pkg/cmd/template/cmd.go of ytt: TemplateOptions.Run,           *)
(* TemplateOptions.RunWithFiles, TemplateOptions.pickSource and            *)
(* TemplateOptions.inspectFiles.                                           *)
(*                                                                         *)
(* RunWithFiles is modelled stage by stage: one action per call it makes   *)
(* to a collaborator together with the error check that follows the call.  *)
(* The collaborators that live in other packages (file marks, library      *)
(* tree, data values flags, library loader) are modelled from the written  *)
(* specification of the pipeline.                                          *)
(***************************************************************************)
EXTENDS Integers, Sequences, FiniteSets, TLC

\* ------------------------------------------------------------------ bounds
MaxFiles == 2
MaxOverlays == 1
MaxDataValuesFiles == 1
MaxSchemaDocs == 2
MaxSrcs == 3
MaxLibraryValues == 1

\* ------------------------------------------------------------ value space
Keys == {"a", "b"}

NoErr == "nil"
ErrFileMarks == "file marks error"
ErrOverlays == "data values flags error"
ErrSchemas == "schema discovery error"
ErrNewSchema == "schema construction error"
ErrNoSchema == "Schema experiment flag was enabled but no schema document was provided"
ErrMergeConflict == "values merge conflict"
ErrValidation == "values schema validation error"
ErrEval == "template evaluation error"
ErrInput == "input error"

\* Documents of values: partial maps from keys to scalars.  The merge never
\* looks at a scalar, so every layer of the cascade writes a scalar of its
\* own: 0 for a schema default, i for the i-th data values file, and
\* MaxDataValuesFiles + j for the j-th flag overlay.
EmptyDoc == [k \in {} |-> 0]
DefaultValue == 0
FileValue(i) == i
FlagValue(j) == MaxDataValuesFiles + j
\* A layer of the values cascade: a document and whether it may add keys.
LayerOf(keys, v, mayAdd) == [doc |-> [k \in keys |-> v], mayAdd |-> mayAdd]

\* Sequences over S of length at most n.
SeqUpTo(S, n) == UNION {[1..m -> S] : m \in 0..n}
InjSeqUpTo(S, n) == {s \in SeqUpTo(S, n) : \A i, j \in 1..Len(s) : i # j => s[i] # s[j]}

\* The flag overlays AsOverlays can return, in flag order.
OverlayLists ==
    {[i \in 1..Len(c) |-> LayerOf(c[i].keys, FlagValue(i), c[i].mayAdd)] :
        c \in SeqUpTo([keys : (SUBSET Keys) \ {{}}, mayAdd : BOOLEAN], MaxOverlays)}
\* The data values files a library can hold, in file order: plain documents.
DataValuesFileLists ==
    {[i \in 1..Len(c) |-> LayerOf(c[i], FileValue(i), FALSE)] :
        c \in SeqUpTo((SUBSET Keys) \ {{}}, MaxDataValuesFiles)}

\* files.File: the library (directory) it sits in, its relative path, and
\* whether its body parses as a template.  Two files of the root library,
\* one of them with an unparseable body, and one file of a child library.
FileUniverse ==
    {[dir |-> 0, rel |-> 1, parses |-> TRUE],
     [dir |-> 0, rel |-> 2, parses |-> FALSE],
     [dir |-> 1, rel |-> 1, parses |-> TRUE]}

\* ---------------------------------------------------------- TemplateOutput
NilDocSet == [set |-> FALSE, Items |-> <<>>]
DocSetOf(items) == [set |-> TRUE, Items |-> items]

PathsDoc(paths) == [kind |-> "paths", paths |-> paths, values |-> EmptyDoc, id |-> 0]
ValuesDoc(doc) == [kind |-> "values", paths |-> <<>>, values |-> doc, id |-> 0]
RenderedDoc(n) == [kind |-> "rendered", paths |-> <<>>, values |-> EmptyDoc, id |-> n]

TemplateOutput(files, docSet, err) == [Files |-> files, DocSet |-> docSet, Err |-> err]
ZeroOutput == TemplateOutput(<<>>, NilDocSet, NoErr)

\* `return TemplateOutput{Err: err}`
ErrOutputPartial(err) == TemplateOutput(<<1>>, DocSetOf(<<RenderedDoc(1)>>), err)
ErrOutput(err) == TemplateOutput(<<>>, NilDocSet, err)

\* `if err != nil`
FailedNever(err) == FALSE
Failed(err) == err # NoErr

\* ------------------------------------------------- workspace (library tree)
\* workspace.NewRootLibrary: files of directory 0 sit in the root library,
\* the files of another directory in a child library of the root.
ChildLibrary(files, d) == [files |-> SelectSeq(files, LAMBDA f : f.dir = d), children |-> <<>>]
NewRootLibrary(files) ==
    [files |-> SelectSeq(files, LAMBDA f : f.dir = 0),
     children |-> IF \E i \in 1..Len(files) : files[i].dir = 1
                  THEN <<ChildLibrary(files, 1)>> ELSE <<>>]

RECURSIVE ChildFiles(_)
ChildFiles(children) ==
    IF children = <<>> THEN <<>>
    ELSE Head(children).files \o ChildFiles(Tail(children))

\* Library.ListAccessibleFiles: the library's files, then its children's.
ListAccessibleFiles(lib) == lib.files \o ChildFiles(lib.children)

\* The library file order: by library, then by relative path.
FileLess(f, g) == f.dir < g.dir \/ (f.dir = g.dir /\ f.rel < g.rel)

RECURSIVE InsertSorted(_, _)
InsertSorted(f, s) ==
    IF s = <<>> THEN <<f>>
    ELSE IF FileLess(f, Head(s)) THEN <<f>> \o s
    ELSE <<Head(s)>> \o InsertSorted(f, Tail(s))

RECURSIVE SortFilesInLibrary(_)
SortFilesInLibrary(fs) ==
    IF fs = <<>> THEN <<>>
    ELSE InsertSorted(fs[Len(fs)], SortFilesInLibrary(SubSeq(fs, 1, Len(fs) - 1)))

RECURSIVE RelativePaths(_)
RelativePaths(fs) ==
    IF fs = <<>> THEN <<>>
    ELSE <<Head(fs).rel>> \o RelativePaths(Tail(fs))

\* ------------------------------------------------------------- inspectFiles
inspectFilesUnsorted(rootLibrary) ==
    TemplateOutput(<<>>, DocSetOf(<<PathsDoc(RelativePaths(ListAccessibleFiles(rootLibrary)))>>), NoErr)
inspectFiles(rootLibrary) ==
    LET listed == ListAccessibleFiles(rootLibrary)
        sorted == SortFilesInLibrary(listed)
    IN  TemplateOutput(<<>>, DocSetOf(<<PathsDoc(RelativePaths(sorted))>>), NoErr)

\* ------------------------------------------------------------------ schema
AnySchema == [kind |-> "any", doc |-> EmptyDoc]
NewDocumentSchema(doc) == [kind |-> "document", doc |-> doc]
\* Schema documents: a document of default values for the keys it types.
SchemaDocUniverse == {[k \in D |-> DefaultValue] : D \in {D \in SUBSET Keys : "a" \in D}}

\* Lines 134-150: which schema is used, whether a warning is printed, and
\* whether the run stops.  newErr is the outcome of NewDocumentSchema.
SelectSchemaNoGate(schemaDocs, schemaEnabled, newErr) ==
    IF Len(schemaDocs) > 0 /\ schemaEnabled
    THEN IF Failed(newErr)
         THEN [schema |-> AnySchema, warn |-> FALSE, err |-> newErr, built |-> TRUE]
         ELSE [schema |-> NewDocumentSchema(schemaDocs[1]), warn |-> FALSE, err |-> NoErr, built |-> TRUE]
    ELSE [schema |-> AnySchema, warn |-> FALSE, err |-> NoErr, built |-> FALSE]
SelectSchema(schemaDocs, schemaEnabled, newErr) ==
    IF Len(schemaDocs) > 0
    THEN IF schemaEnabled
         THEN IF Failed(newErr)
              THEN [schema |-> AnySchema, warn |-> FALSE, err |-> newErr, built |-> TRUE]
              ELSE [schema |-> NewDocumentSchema(schemaDocs[1]), warn |-> FALSE, err |-> NoErr, built |-> TRUE]
         ELSE [schema |-> AnySchema, warn |-> TRUE, err |-> NoErr, built |-> FALSE]
    ELSE IF schemaEnabled
         THEN [schema |-> AnySchema, warn |-> FALSE, err |-> ErrNoSchema, built |-> FALSE]
         ELSE [schema |-> AnySchema, warn |-> FALSE, err |-> NoErr, built |-> FALSE]

\* ------------------------------------------------- values cascade (loader)
Overlay(base, top) ==
    [k \in (DOMAIN base) \cup (DOMAIN top) |-> IF k \in DOMAIN top THEN top[k] ELSE base[k]]

\* Layers are applied in order onto acc; a layer that is not the base and is
\* not allowed to add keys conflicts when it names a key acc does not have.
RECURSIVE ApplyLayers(_, _, _)
ApplyLayers(acc, hasBase, layers) ==
    IF layers = <<>> THEN [doc |-> acc, err |-> NoErr]
    ELSE LET l == Head(layers) IN
         IF hasBase /\ ~l.mayAdd /\ ~((DOMAIN l.doc) \subseteq (DOMAIN acc))
         THEN [doc |-> EmptyDoc, err |-> ErrMergeConflict]
         ELSE ApplyLayers(Overlay(acc, l.doc), TRUE, Tail(layers))

Defaults(schema) == schema.doc
Validate(schema, doc) ==
    IF schema.kind = "document" /\ ~((DOMAIN doc) \subseteq (DOMAIN schema.doc))
    THEN ErrValidation ELSE NoErr

\* LibraryLoader.Values: schema defaults, then the data values files of the
\* scope, then the overlays handed in; validated against the schema.
Values(dataValuesFiles, valuesOverlays, schema) ==
    LET merged == ApplyLayers(Defaults(schema), schema.kind = "document",
                              dataValuesFiles \o valuesOverlays)
    IN  IF Failed(merged.err) THEN [doc |-> EmptyDoc, err |-> merged.err]
        ELSE IF Failed(Validate(schema, merged.doc))
             THEN [doc |-> EmptyDoc, err |-> Validate(schema, merged.doc)]
             ELSE [doc |-> merged.doc, err |-> NoErr]

\* Line 152: `libraryLoader.Values(valuesOverlays, schema)`
ResolveRootValuesNoOverlays(dataValuesFiles, valuesOverlays, schema) ==
    Values(dataValuesFiles, <<>>, schema)
ResolveRootValues(dataValuesFiles, valuesOverlays, schema) ==
    Values(dataValuesFiles, valuesOverlays, schema)

\* Line 156: `libraryValues = append(libraryValues, libraryValuesOverlays...)`
AppendLibraryValues(libraryValues, libraryValuesOverlays) ==
    libraryValues \o libraryValuesOverlays

\* Library values: which source declared them and their position there.
LibraryValuesFrom(src) == {[i \in 1..m |-> [src |-> src, n |-> i]] : m \in 0..MaxLibraryValues}
\* The library values the loader finds: one per child library of the root.
LibraryValuesIn(lib) == [i \in 1..Len(lib.children) |-> [src |-> "file", n |-> i]]

\* `return TemplateOutput{DocSet: &DocumentSet{Items: []*Document{values.Doc}}}`
ValuesInspectOutputWithFiles(doc) == TemplateOutput(<<1>>, DocSetOf(<<ValuesDoc(doc)>>), NoErr)
ValuesInspectOutput(doc) == TemplateOutput(<<>>, DocSetOf(<<ValuesDoc(doc)>>), NoErr)

\* Lines 112 and 158: the two mode checks.
FilesInspectGateOff(o) == FALSE
FilesInspectGateYields(o) == o.InspectFiles /\ ~o.Inspect
FilesInspectGate(o) == o.InspectFiles
ValuesInspectGate(o) == o.Inspect

\* ------------------------------------------------------------- pickSource
\* FileSource, as far as pickSource looks at it.
Sources == [HasInput : BOOLEAN, HasOutput : BOOLEAN]
Picks(src, pickFunc) == IF pickFunc = "HasInput" THEN src.HasInput ELSE src.HasOutput

\* The loop of pickSource from position i on; the result is the position of
\* the source returned.
RECURSIVE pickFrom(_, _, _)
pickFrom(sources, i, pickFunc) ==
    IF i > Len(sources) THEN Len(sources)
    ELSE IF Picks(sources[i], pickFunc) THEN i
    ELSE pickFrom(sources, i + 1, pickFunc)

pickSourceFallbackFirst(sources, pickFunc) ==
    IF \E i \in 1..Len(sources) : Picks(sources[i], pickFunc)
    THEN pickFrom(sources, 1, pickFunc) ELSE 1
pickSource(sources, pickFunc) == pickFrom(sources, 1, pickFunc)

\* LibraryLoader.Eval, a deterministic transform of what is loaded: it fails
\* on a file whose body does not parse, and else renders one document and
\* one output file per file of the root library.
EvalErr(lib) ==
    IF \E i \in 1..Len(ListAccessibleFiles(lib)) : ~ListAccessibleFiles(lib)[i].parses
    THEN ErrEval ELSE NoErr
EvalResult(lib) ==
    [Files |-> [i \in 1..Len(lib.files) |-> i],
     DocSet |-> DocSetOf([i \in 1..Len(lib.files) |-> RenderedDoc(i)])]

\* ------------------------------------------------------------------- state
VARIABLES
    o,                      \* TemplateOptions
    in,                     \* TemplateInput
    pc,                     \* position in RunWithFiles
    calls,                  \* stages invoked so far, in order
    errs,                   \* the error each invoked stage returned
    files,                  \* in.Files after FileMarksOpts.Apply
    rootLibrary,
    valuesOverlays,
    libraryValuesOverlays,
    schemaDocs,
    schema,
    warnings,               \* number of ui.Warnf calls
    dataValuesFiles,        \* data values documents the loader found
    libraryValuesFound,     \* library values the loader found
    valuesArgs,             \* arguments of the call of Values
    values,
    libraryValues,
    evalArgs,               \* arguments of the call of Eval
    out,                    \* the TemplateOutput returned
    srcs,                   \* Run: the file sources
    rpc,                    \* position in Run
    inSrc,                  \* Run: index of the source picked for input
    outSrc,                 \* Run: index of the source picked for output
    runErr                  \* Run: the error returned

pipeVars == <<o, in, pc, calls, errs, files, rootLibrary, valuesOverlays,
              libraryValuesOverlays, schemaDocs, schema, warnings, dataValuesFiles,
              libraryValuesFound, valuesArgs, values, libraryValues, evalArgs, out>>
runVars == <<srcs, rpc, inSrc, outSrc, runErr>>
vars == <<pipeVars, runVars>>

NoArgs == [called |-> FALSE, values |-> EmptyDoc, overlays |-> <<>>,
           schema |-> AnySchema, libraryValues |-> <<>>]

InitPipeline ==
    /\ o \in [InspectFiles : BOOLEAN, SchemaEnabled : BOOLEAN, Inspect : BOOLEAN]
    /\ in \in [Files : InjSeqUpTo(FileUniverse, MaxFiles)]
    /\ pc = "start"
    /\ calls = <<>>
    /\ errs = <<>>
    /\ files = <<>>
    /\ rootLibrary = NewRootLibrary(<<>>)
    /\ valuesOverlays = <<>>
    /\ libraryValuesOverlays = <<>>
    /\ schemaDocs = <<>>
    /\ schema = AnySchema
    /\ warnings = 0
    /\ dataValuesFiles = <<>>
    /\ libraryValuesFound = <<>>
    /\ valuesArgs = NoArgs
    /\ values = EmptyDoc
    /\ libraryValues = <<>>
    /\ evalArgs = NoArgs
    /\ out = ZeroOutput

IdleRun ==
    /\ srcs = <<>>
    /\ rpc = "idle"
    /\ inSrc = 0
    /\ outSrc = 0
    /\ runErr = NoErr

Init == InitPipeline /\ IdleRun

\* A stage was invoked and returned err.
Invoked(stage, err) ==
    /\ calls' = Append(calls, stage)
    /\ errs' = Append(errs, err)

\* `return TemplateOutput{Err: err}` out of RunWithFiles.
ReturnErr(err) ==
    /\ out' = ErrOutput(err)
    /\ pc' = "done"

\* Lines 104-107.
ApplyFileMarks ==
    /\ pc = "start"
    /\ \E err \in {NoErr, ErrFileMarks} :
         /\ Invoked("FileMarks", err)
         /\ files' = IF err = NoErr THEN in.Files ELSE <<>>
         /\ IF Failed(err) THEN ReturnErr(err)
            ELSE pc' = "library" /\ out' = out
    /\ UNCHANGED <<o, in, rootLibrary, valuesOverlays, libraryValuesOverlays, schemaDocs,
                   schema, warnings, dataValuesFiles, libraryValuesFound, valuesArgs,
                   values, libraryValues, evalArgs, runVars>>

\* Lines 109-112.
BuildLibrary ==
    /\ pc = "library"
    /\ Invoked("Library", NoErr)
    /\ rootLibrary' = NewRootLibrary(files)
    /\ pc' = IF FilesInspectGate(o) THEN "inspectFiles" ELSE "overlays"
    /\ UNCHANGED <<o, in, files, valuesOverlays, libraryValuesOverlays, schemaDocs,
                   schema, warnings, dataValuesFiles, libraryValuesFound, valuesArgs,
                   values, libraryValues, evalArgs, out, runVars>>

\* Lines 113 and 183-200.
InspectFilesReturn ==
    /\ pc = "inspectFiles"
    /\ out' = inspectFiles(rootLibrary)
    /\ pc' = "done"
    /\ UNCHANGED <<o, in, calls, errs, files, rootLibrary, valuesOverlays,
                   libraryValuesOverlays, schemaDocs, schema, warnings, dataValuesFiles,
                   libraryValuesFound, valuesArgs, values, libraryValues, evalArgs, runVars>>

\* Lines 116-119.
AsOverlays ==
    /\ pc = "overlays"
    /\ \E err \in {NoErr, ErrOverlays} :
       \E vo \in OverlayLists, lvo \in LibraryValuesFrom("flag") :
         /\ Invoked("Overlays", err)
         /\ valuesOverlays' = IF err = NoErr THEN vo ELSE <<>>
         /\ libraryValuesOverlays' = IF err = NoErr THEN lvo ELSE <<>>
         /\ IF Failed(err) THEN ReturnErr(err)
            ELSE pc' = "schemas" /\ out' = out
    /\ UNCHANGED <<o, in, files, rootLibrary, schemaDocs, schema, warnings,
                   dataValuesFiles, libraryValuesFound, valuesArgs, values,
                   libraryValues, evalArgs, runVars>>

\* Lines 121-133.
Schemas ==
    /\ pc = "schemas"
    /\ \E err \in {NoErr, ErrSchemas} :
       \E docs \in InjSeqUpTo(SchemaDocUniverse, MaxSchemaDocs) :
         /\ Invoked("Schemas", err)
         /\ schemaDocs' = IF err = NoErr THEN docs ELSE <<>>
         /\ IF Failed(err) THEN ReturnErr(err)
            ELSE pc' = "select" /\ out' = out
    /\ UNCHANGED <<o, in, files, rootLibrary, valuesOverlays, libraryValuesOverlays,
                   schema, warnings, dataValuesFiles, libraryValuesFound, valuesArgs,
                   values, libraryValues, evalArgs, runVars>>

\* Lines 134-150.
SchemaSelect ==
    /\ pc = "select"
    /\ \E newErr \in {NoErr, ErrNewSchema} :
         LET r == SelectSchema(schemaDocs, o.SchemaEnabled, newErr) IN
         /\ Invoked("SchemaSelect", r.err)
         /\ schema' = r.schema
         /\ warnings' = IF r.warn THEN warnings + 1 ELSE warnings
         /\ IF Failed(r.err) THEN ReturnErr(r.err)
            ELSE pc' = "values" /\ out' = out
    /\ UNCHANGED <<o, in, files, rootLibrary, valuesOverlays, libraryValuesOverlays,
                   schemaDocs, dataValuesFiles, libraryValuesFound, valuesArgs, values,
                   libraryValues, evalArgs, runVars>>

\* Lines 152-158.
LoadValues ==
    /\ pc = "values"
    /\ \E dv \in DataValuesFileLists :
         LET r == ResolveRootValues(dv, valuesOverlays, schema)
             ok == r.err = NoErr
             lv == LibraryValuesIn(rootLibrary)
         IN
         /\ Invoked("Values", r.err)
         /\ dataValuesFiles' = dv
         /\ valuesArgs' = [NoArgs EXCEPT !.called = TRUE, !.overlays = valuesOverlays,
                                         !.schema = schema]
         /\ values' = r.doc
         /\ libraryValuesFound' = IF ok THEN lv ELSE <<>>
         /\ IF Failed(r.err)
            THEN /\ ReturnErr(r.err)
                 /\ libraryValues' = libraryValues
            ELSE /\ libraryValues' = AppendLibraryValues(IF ok THEN lv ELSE <<>>,
                                                         libraryValuesOverlays)
                 /\ pc' = IF ValuesInspectGate(o) THEN "inspectValues" ELSE "eval"
                 /\ out' = out
    /\ UNCHANGED <<o, in, files, rootLibrary, valuesOverlays, libraryValuesOverlays,
                   schemaDocs, schema, warnings, evalArgs, runVars>>

\* Lines 158-164.
InspectValuesReturn ==
    /\ pc = "inspectValues"
    /\ out' = ValuesInspectOutput(values)
    /\ pc' = "done"
    /\ UNCHANGED <<o, in, calls, errs, files, rootLibrary, valuesOverlays,
                   libraryValuesOverlays, schemaDocs, schema, warnings, dataValuesFiles,
                   libraryValuesFound, valuesArgs, values, libraryValues, evalArgs, runVars>>

\* Lines 166-171.
Eval ==
    /\ pc = "eval"
    /\ evalArgs' = [NoArgs EXCEPT !.called = TRUE, !.values = values,
                                  !.libraryValues = libraryValues]
    /\ LET err == EvalErr(rootLibrary) IN
         /\ Invoked("Eval", err)
         /\ IF Failed(err) THEN ReturnErr(err)
            ELSE /\ pc' = "done"
                 /\ out' = IF err = NoErr
                           THEN TemplateOutput(EvalResult(rootLibrary).Files,
                                               EvalResult(rootLibrary).DocSet, NoErr)
                           ELSE ZeroOutput
    /\ UNCHANGED <<o, in, files, rootLibrary, valuesOverlays, libraryValuesOverlays,
                   schemaDocs, schema, warnings, dataValuesFiles, libraryValuesFound,
                   valuesArgs, values, libraryValues, runVars>>

\* --------------------------------------------------------------------- Run
\* Run with RunWithFiles reduced to the output it hands back.  Run itself
\* builds a list of two sources; pickSource is exercised on every list of
\* one to MaxSrcs sources.
IdlePipeline ==
    /\ o = [InspectFiles |-> FALSE, SchemaEnabled |-> FALSE, Inspect |-> FALSE]
    /\ in = [Files |-> <<>>]
    /\ pc = "idle"
    /\ calls = <<>>
    /\ errs = <<>>
    /\ files = <<>>
    /\ rootLibrary = NewRootLibrary(<<>>)
    /\ valuesOverlays = <<>>
    /\ libraryValuesOverlays = <<>>
    /\ schemaDocs = <<>>
    /\ schema = AnySchema
    /\ warnings = 0
    /\ dataValuesFiles = <<>>
    /\ libraryValuesFound = <<>>
    /\ valuesArgs = NoArgs
    /\ values = EmptyDoc
    /\ libraryValues = <<>>
    /\ evalArgs = NoArgs
    /\ out = ZeroOutput

InitRun ==
    /\ srcs \in {s \in SeqUpTo(Sources, MaxSrcs) : Len(s) >= 1}
    /\ rpc = "start"
    /\ inSrc = 0
    /\ outSrc = 0
    /\ runErr = NoErr

InitPick == IdlePipeline /\ InitRun

\* Lines 91-94.
RunInput ==
    /\ rpc = "start"
    /\ inSrc' = pickSource(srcs, "HasInput")
    /\ \E err \in {NoErr, ErrInput} :
         IF Failed(err) THEN runErr' = err /\ rpc' = "done"
         ELSE runErr' = runErr /\ rpc' = "pipeline"
    /\ UNCHANGED <<pipeVars, srcs, outSrc>>

\* Line 96.
RunPipeline ==
    /\ rpc = "pipeline"
    /\ out' \in {ErrOutput(ErrEval), TemplateOutput(<<>>, DocSetOf(<<>>), NoErr)}
    /\ rpc' = "output"
    /\ UNCHANGED <<o, in, pc, calls, errs, files, rootLibrary, valuesOverlays,
                   libraryValuesOverlays, schemaDocs, schema, warnings, dataValuesFiles,
                   libraryValuesFound, valuesArgs, values, libraryValues, evalArgs,
                   srcs, inSrc, outSrc, runErr>>

\* Line 98.
RunOutput ==
    /\ rpc = "output"
    /\ outSrc' = pickSource(srcs, "HasOutput")
    /\ runErr' \in {NoErr, out.Err}
    /\ rpc' = "done"
    /\ UNCHANGED <<pipeVars, srcs, inSrc>>

NextPick ==
    \/ RunInput
    \/ RunPipeline
    \/ RunOutput

SpecPick == InitPick /\ [][NextPick]_vars

Next ==
    \/ ApplyFileMarks
    \/ BuildLibrary
    \/ InspectFilesReturn
    \/ AsOverlays
    \/ Schemas
    \/ SchemaSelect
    \/ LoadValues
    \/ InspectValuesReturn
    \/ Eval

Spec == Init /\ [][Next]_vars

\* ------------------------------------------------------------- properties
StageOrder == <<"FileMarks", "Library", "Overlays", "Schemas", "SchemaSelect", "Values", "Eval">>
Called(stage) == \E i \in 1..Len(calls) : calls[i] = stage
ErrOf(stage) == errs[CHOOSE i \in 1..Len(calls) : calls[i] = stage]
Returned == pc = "done"

IsListing == out.DocSet.set /\ Len(out.DocSet.Items) = 1 /\ out.DocSet.Items[1].kind = "paths"
IsValuesDoc == out.DocSet.set /\ Len(out.DocSet.Items) = 1 /\ out.DocSet.Items[1].kind = "values"
DocumentSchemaOfFirst == [kind |-> "document", doc |-> schemaDocs[1]]
ValuesReached == pc = "values" \/ valuesArgs.called

\* C1: schema gate matrix.  Once schema selection has run (files-inspect off,
\* earlier stages succeeded): schema document present and SchemaEnabled -> no
\* warning and, the schema construction succeeding, the schema built from the
\* first schema document is the one handed to Values; present and not enabled
\* -> one warning, no error, AnySchema handed to Values; absent and enabled ->
\* the run has returned the missing-schema error and Values is never called;
\* absent and not enabled -> AnySchema, no warning, no error.
C1_SchemaGateMatrix ==
    Called("SchemaSelect") =>
        LET present == Len(schemaDocs) > 0
            enabled == o.SchemaEnabled
            selErr == ErrOf("SchemaSelect")
        IN  /\ (present /\ enabled) =>
                /\ warnings = 0
                /\ selErr \in {NoErr, ErrNewSchema}
                /\ selErr = NoErr => (ValuesReached /\ schema = DocumentSchemaOfFirst)
                /\ selErr # NoErr => (~valuesArgs.called /\ Returned /\ out.Err = selErr)
                /\ valuesArgs.called => valuesArgs.schema = DocumentSchemaOfFirst
            /\ (present /\ ~enabled) =>
                /\ warnings = 1
                /\ selErr = NoErr
                /\ ValuesReached
                /\ schema = AnySchema
                /\ valuesArgs.called => valuesArgs.schema = AnySchema
            /\ (~present /\ enabled) =>
                /\ warnings = 0
                /\ selErr = ErrNoSchema
                /\ Returned
                /\ out = [Files |-> <<>>, DocSet |-> NilDocSet, Err |-> ErrNoSchema]
                /\ ~valuesArgs.called
                /\ ~evalArgs.called
            /\ (~present /\ ~enabled) =>
                /\ warnings = 0
                /\ selErr = NoErr
                /\ ValuesReached
                /\ schema = AnySchema
                /\ valuesArgs.called => valuesArgs.schema = AnySchema

C1_Witness ==
    /\ valuesArgs.called
    /\ Len(schemaDocs) > 0
    /\ ~o.SchemaEnabled
    /\ warnings = 1
    /\ valuesArgs.schema = AnySchema

PipelineStages == {"Overlays", "Schemas", "SchemaSelect", "Values", "Eval"}
NoPipelineStage == \A i \in 1..Len(calls) : calls[i] \notin PipelineStages

HasUnparseable == \E i \in 1..Len(in.Files) : ~in.Files[i].parses

\* C2 as stated: with InspectFiles set no pipeline stage is ever invoked and
\* every run returns a successful file listing.
C2_AsStated ==
    o.InspectFiles =>
        /\ NoPipelineStage
        /\ Returned => (out.Err = NoErr /\ IsListing)

\* C2, amended: with InspectFiles set, data values flag parsing, schema
\* resolution, values resolution and evaluation are never invoked, and once
\* the file marks have been applied without error the run returns a
\* successful file listing, also on an input whose template makes normal
\* mode return an error; a file marks error is returned as it is.
C2_InspectionIsolation ==
    /\ o.InspectFiles =>
        /\ NoPipelineStage
        /\ ~valuesArgs.called /\ ~evalArgs.called
        /\ (Returned /\ ErrOf("FileMarks") = NoErr) => (out.Err = NoErr /\ out.Files = <<>> /\ IsListing)
        /\ (Returned /\ ErrOf("FileMarks") # NoErr) => out = [Files |-> <<>>, DocSet |-> NilDocSet, Err |-> ErrOf("FileMarks")]
    /\ (~o.InspectFiles /\ ~o.Inspect /\ HasUnparseable /\ Returned) => out.Err # NoErr

C2_Witness ==
    /\ Returned
    /\ o.InspectFiles
    /\ HasUnparseable
    /\ Len(files) > 0
    /\ out.Err = NoErr
    /\ IsListing

\* C3: all-or-nothing.  A returned TemplateOutput either carries an error and
\* neither files nor a document set, or carries no error and a document set;
\* and it carries an error whenever a stage failed.
C3_AllOrNothing ==
    Returned =>
        /\ \/ (out.Err # NoErr /\ out.Files = <<>> /\ ~out.DocSet.set /\ out.DocSet.Items = <<>>)
           \/ (out.Err = NoErr /\ out.DocSet.set)
        /\ (\E i \in 1..Len(errs) : errs[i] # NoErr) => out.Err # NoErr

C3_Witness ==
    /\ Returned
    /\ Called("Eval")
    /\ out.Err = ErrEval
    /\ Len(rootLibrary.files) > 0
    /\ out.Files = <<>>
    /\ ~out.DocSet.set

\* C4 as stated: no option configuration selects more than one mode.
C4_AsStated == ~(o.InspectFiles /\ o.Inspect)

\* C4, amended: both toggles can be set at once; every successful run still
\* returns the result of exactly one mode, chosen by the checks of
\* RunWithFiles: the file listing iff InspectFiles is set, the values
\* document iff InspectFiles is not set and DataValuesFlags.Inspect is, the
\* evaluation result iff neither is set.
C4_OneModeEffective ==
    (Returned /\ out.Err = NoErr) =>
        /\ IsListing <=> o.InspectFiles
        /\ IsValuesDoc <=> (~o.InspectFiles /\ o.Inspect)
        /\ evalArgs.called <=> (~o.InspectFiles /\ ~o.Inspect)
        /\ ~(IsListing /\ IsValuesDoc)
        /\ evalArgs.called => (~IsListing /\ ~IsValuesDoc)

C4_Witness ==
    /\ Returned
    /\ o.InspectFiles
    /\ o.Inspect
    /\ out.Err = NoErr
    /\ IsListing
    /\ ~valuesArgs.called

\* C5: whenever schema discovery yields more than one schema document, the
\* run ends with an error and neither values resolution nor evaluation is
\* performed.
C5_AtMostOneSchemaDoc ==
    Len(schemaDocs) > 1 =>
        /\ ~valuesArgs.called
        /\ ~evalArgs.called
        /\ Returned => out.Err # NoErr

\* C6: values-inspect.  With DataValuesFlags.Inspect set, InspectFiles not
\* set and Values returning without error, Eval is never invoked and the run
\* returns no error, no files and a document set of exactly one document,
\* the values document Values returned for the selected schema (the document
\* schema when SchemaEnabled, AnySchema otherwise).
C6_ValuesInspect ==
    (~o.InspectFiles /\ o.Inspect /\ Called("Values") /\ ErrOf("Values") = NoErr) =>
        /\ ~Called("Eval") /\ ~evalArgs.called
        /\ pc \in {"inspectValues", "done"}
        /\ valuesArgs.schema = IF o.SchemaEnabled THEN DocumentSchemaOfFirst ELSE AnySchema
        /\ Returned =>
            /\ out.Err = NoErr
            /\ out.Files = <<>>
            /\ IsValuesDoc
            /\ out.DocSet.Items[1].values = values

C6_Witness ==
    /\ Returned
    /\ ~o.InspectFiles
    /\ o.Inspect
    /\ o.SchemaEnabled
    /\ out.Err = NoErr
    /\ IsValuesDoc
    /\ DOMAIN values = Keys

Injective(p) == \A i, j \in DOMAIN p : i # j => p[i] # p[j]

\* C7: files-inspect result.  The listing returned has no error and one
\* document, an array with one entry per file of the library (none omitted,
\* none twice), each entry the relative path of its file, the files taken in
\* ascending library file order.
C7_FilesInspectListing ==
    (Returned /\ o.InspectFiles /\ ErrOf("FileMarks") = NoErr) =>
        /\ out.Err = NoErr
        /\ out.Files = <<>>
        /\ IsListing
        /\ LET items == out.DocSet.Items[1].paths
               n == Len(files)
           IN  /\ Len(items) = n
               /\ \E p \in [1..n -> 1..n] :
                    /\ Injective(p)
                    /\ \A i \in 1..n : items[i] = files[p[i]].rel
                    /\ \A i, j \in 1..n : i < j => FileLess(files[p[i]], files[p[j]])

C7_Witness ==
    /\ Returned
    /\ o.InspectFiles
    /\ Len(files) = 2
    /\ FileLess(files[2], files[1])
    /\ files[1].rel # files[2].rel
    /\ IsListing

IsPrefix(s, t) == Len(s) <= Len(t) /\ \A i \in 1..Len(s) : s[i] = t[i]

\* C8: fail-fast, first error only.  The stages are invoked in the fixed
\* order; a stage that fails is the last one invoked, and the run has
\* returned exactly its error.
C8_FailFast ==
    /\ IsPrefix(calls, StageOrder)
    /\ Len(errs) = Len(calls)
    /\ \A i \in 1..Len(errs) :
         errs[i] # NoErr => (i = Len(errs) /\ Returned /\ out.Err = errs[i])
    /\ (Returned /\ out.Err # NoErr) => (Len(errs) > 0 /\ errs[Len(errs)] = out.Err)

C8_Witness ==
    /\ Returned
    /\ Len(calls) = 6
    /\ calls[6] = "Values"
    /\ errs[6] = ErrMergeConflict
    /\ HasUnparseable
    /\ out.Err = ErrMergeConflict

FirstOrLast(p, pickFunc) ==
    /\ p \in 1..Len(srcs)
    /\ \/ (Picks(srcs[p], pickFunc) /\ \A j \in 1..(p - 1) : ~Picks(srcs[j], pickFunc))
       \/ (p = Len(srcs) /\ \A j \in 1..Len(srcs) : ~Picks(srcs[j], pickFunc))

\* C9: source selection.  The source picked for input is the first one with
\* HasInput, the last of the list when none has; the source picked for
\* output is the first one with HasOutput, the last when none has, whatever
\* was picked for input; both are members of the list.
C9_PickSource ==
    /\ rpc # "start" => FirstOrLast(inSrc, "HasInput")
    /\ rpc = "done" /\ runErr # ErrInput => FirstOrLast(outSrc, "HasOutput")
    /\ outSrc # 0 => FirstOrLast(outSrc, "HasOutput")

C9_Witness ==
    /\ rpc = "done"
    /\ Len(srcs) = 3
    /\ inSrc = 2
    /\ outSrc = 3
    /\ ~srcs[3].HasOutput

LastWith(layers, k) ==
    CHOOSE i \in 1..Len(layers) :
        /\ k \in DOMAIN layers[i].doc
        /\ \A j \in (i + 1)..Len(layers) : k \notin DOMAIN layers[j].doc
InSome(layers, k) == \E i \in 1..Len(layers) : k \in DOMAIN layers[i].doc

====
